---------------------------- MODULE Spec2Model ----------------------------
(***************************************************************************)
(* Quanta: the ingestion / alignment / feature pipeline.                   *)
(*                                                                         *)
(*   scripts/get_data.py             get_sp500_data, get_sp500_prices,     *)
(*                                   get_market_news, save_data_to_csv,    *)
(*                                   get_latest_csv_path, _to_yahoo_symbols*)
(*   scripts/get_finnhub_data.py     get_market_news                       *)
(*   scripts/polarity_analysis.py    get_sentiment_score,                  *)
(*                                   get_compound_score                    *)
(*   scripts/StockSentimentMapper.py _determine_sector_impact,             *)
(*                                   _extract_keyword_impacts              *)
(*   scripts/ml_data_prep.py         generate_ml_training_dataset          *)
(*   app/views/web.py                index, predict                        *)
(*                                                                         *)
(* The specifications share the variables below; each one leaves the       *)
(* variables of the others untouched.                                      *)
(*   SpecSymbols   symbol normalisation, character by character            *)
(*   SpecUniverse  get_sp500_data over the two scraped sources             *)
(*   SpecDataset   generate_ml_training_dataset over artifact contents     *)
(*   SpecRolling   the daily sentiment table and its rolling means         *)
(*   SpecScorer    the compound score and its label                        *)
(*   SpecMapper    the keyword tables of StockSentimentMapper              *)
(*   SpecNews      get_market_news, both implementations, and index        *)
(*   SpecPrices    get_sp500_prices over what the download gives           *)
(*   Spec          the artifact directories, the clock and the handlers    *)
(*                 that write and read them, interleaved                   *)
(***************************************************************************)
EXTENDS Integers, Sequences, FiniteSets, TLC

VARIABLES
    symIn, symOut, symOp,          \* SpecSymbols: input symbol, output, which normaliser ran
    srcA, srcB, uniResult, uniDone, \* SpecUniverse: the two sources, get_sp500_data's result
    dsPrice, dsNews,               \* SpecDataset: the latest price and news artifacts
    dsLookback, dsResult, dsDone,  \* SpecDataset: lookback_days of the call, what it returned
    clock, second,                 \* Spec: file-system timestamp tick, wall-clock second
    dirs, files,                   \* Spec: the data directories that exist, the files in them
    pc, nextRun,                   \* Spec: what each worker is running, the runs started so far + 1
    persistRequested,              \* Spec: some request so far carried save=1
    saveInvoked, clobbered,        \* Spec: save_data_to_csv was called / wrote over another run's file
    lastLookup,                    \* Spec: the latest get_latest_csv_path call, input and result
    scText, scLabel, scScore,      \* SpecScorer: a text, get_sentiment_score's and get_compound_score's answer
    rlNews, rlTable, rlDone,       \* SpecRolling: the rows of a news artifact, the daily sentiment table
    mpHeadline, mpSectorImpact,    \* SpecMapper: a headline, _determine_sector_impact's answer,
    mpKeywordWeights,              \*   _extract_keyword_impacts' answer
    nwProvider, nwCall, nwIndex,   \* SpecNews: the news provider, a get_market_news call, a run of index
    prTickers, prUniverse,         \* SpecPrices: the tickers argument, what get_sp500_data would return,
    prDownload, prResult, prDone   \*   what yf.download gave, what get_sp500_prices returned

symVars == <<symIn, symOut, symOp>>
uniVars == <<srcA, srcB, uniResult, uniDone>>
dsVars == <<dsPrice, dsNews, dsLookback, dsResult, dsDone>>
storeVars ==
    <<clock, second, dirs, files, pc, nextRun, persistRequested, saveInvoked,
      clobbered, lastLookup>>
scVars == <<scText, scLabel, scScore>>
rlVars == <<rlNews, rlTable, rlDone>>
mpVars == <<mpHeadline, mpSectorImpact, mpKeywordWeights>>
nwVars == <<nwProvider, nwCall, nwIndex>>
prVars == <<prTickers, prUniverse, prDownload, prResult, prDone>>
otherVars == <<scVars, rlVars, mpVars, nwVars, prVars>>
vars == <<symVars, uniVars, dsVars, storeVars, otherVars>>

(***************************************************************************)
(* Bounds.                                                                 *)
(***************************************************************************)
MaxSymLen == 3
MaxTickers == 2
MaxWikiRows == 2

(***************************************************************************)
(* Symbols are strings, modelled as sequences of one-character strings.    *)
(* " " stands for every whitespace character str.strip() removes.          *)
(***************************************************************************)
Alphabet == {"A", "B", ".", "-", " "}

SeqsUpTo(S, n) == UNION {[1..k -> S] : k \in 0..n}

AllSymbols == SeqsUpTo(Alphabet, MaxSymLen)

IsSpace(c) == c = " "

\* the number of leading whitespace characters of s
RECURSIVE LeadingSpaces(_)
LeadingSpaces(s) ==
    IF s = <<>> \/ ~IsSpace(Head(s)) THEN 0 ELSE 1 + LeadingSpaces(Tail(s))

\* the number of trailing whitespace characters of s
RECURSIVE TrailingSpaces(_)
TrailingSpaces(s) ==
    IF s = <<>> \/ ~IsSpace(s[Len(s)]) THEN 0
    ELSE 1 + TrailingSpaces(SubSeq(s, 1, Len(s) - 1))

\* str.strip(): drop leading whitespace, then trailing whitespace
RECURSIVE StripLeft(_)
StripLeft(s) == IF s # <<>> /\ IsSpace(Head(s)) THEN StripLeft(Tail(s)) ELSE s

RECURSIVE StripRight(_)
StripRight(s) ==
    IF s # <<>> /\ IsSpace(s[Len(s)]) THEN StripRight(SubSeq(s, 1, Len(s) - 1)) ELSE s

Strip(s) == StripRight(StripLeft(s))

\* a plausible slip: str.replace('.', '-', 1) replaces the first dot only
RECURSIVE ReplaceFirstDot(_)
ReplaceFirstDot(s) ==
    IF s = <<>> THEN <<>>
    ELSE IF Head(s) = "." THEN <<"-">> \o Tail(s)
    ELSE <<Head(s)>> \o ReplaceFirstDot(Tail(s))

\* str.replace('.', '-'): every occurrence, left to right
RECURSIVE ReplaceDots(_)
ReplaceDots(s) ==
    IF s = <<>> THEN <<>>
    ELSE <<(IF Head(s) = "." THEN "-" ELSE Head(s))>> \o ReplaceDots(Tail(s))

\* get_sp500_data: str(t).strip().replace('.', '-')   (lines 59 and 84)
NormalizeSymbol(s) == ReplaceDots(Strip(s))

\* _to_yahoo_symbols: str(t).replace(".", "-")
ToYahooSymbol(s) == ReplaceDots(s)

HasDot(s) == \E i \in 1..Len(s) : s[i] = "."

(***************************************************************************)
(* SpecSymbols: one symbol, one of the two normalisers applied to it.      *)
(***************************************************************************)
SymIdle == symOp = "none"

ApplyNormalizeSymbol ==
    /\ SymIdle
    /\ symOut' = NormalizeSymbol(symIn)
    /\ symOp' = "get_sp500_data"
    /\ UNCHANGED <<symIn, uniVars, dsVars, storeVars, otherVars>>

ApplyToYahooSymbol ==
    /\ SymIdle
    /\ symOut' = ToYahooSymbol(symIn)
    /\ symOp' = "_to_yahoo_symbols"
    /\ UNCHANGED <<symIn, uniVars, dsVars, storeVars, otherVars>>

(***************************************************************************)
(* get_sp500_data.  Source A (StockAnalysis) gives the symbol list, source *)
(* B (Wikipedia) the sector and founding year of each symbol.              *)
(***************************************************************************)
\* the symbols the two pages may show
UniSymbols == {<<"A">>, <<"B", ".", "B">>, <<" ", "A">>}

\* source A's response: the request fails, the page holds no table, or the
\* first table's symbol column (possibly with no row at all)
SourceAResponses ==
    {[status |-> st, symbols |-> <<>>] : st \in {"http_error", "no_tables"}}
    \cup {[status |-> "ok", symbols |-> syms] : syms \in SeqsUpTo(UniSymbols, MaxTickers)}

\* the column count a row of the constituents table must exceed (line 81)
WikiMinCols == 7

\* cell texts of a constituents row, as whitespace-separated tokens
SectorTexts == {<<>>, <<"Health", "Care">>}
FoundedTexts == {<<"2013", "(1888)">>, <<"unknown">>}
ShortRowCols == WikiMinCols - 3
FullRowCols == WikiMinCols + 1

WikiRows ==
    [ncols : {ShortRowCols, FullRowCols},
     ticker : {<<"A">>, <<"B", ".", "B">>},
     sector : SectorTexts,
     founded : FoundedTexts]

\* source B's response: the request fails, no constituents table is found,
\* or the table's data rows
SourceBResponses ==
    {[status |-> st, rows |-> <<>>] : st \in {"http_error", "no_table"}}
    \cup {[status |-> "ok", rows |-> rows] : rows \in SeqsUpTo(WikiRows, MaxWikiRows)}

\* str.lower() on the tokens of SectorTexts
LowerWord(w) ==
    CASE w = "Health" -> "health"
      [] w = "Care" -> "care"
      [] OTHER -> w

\* the run of exactly four digits between word boundaries in a token of
\* FoundedTexts, "" if it has none
YearInToken(tok) ==
    CASE tok = "2013" -> "2013"
      [] tok = "(1888)" -> "1888"
      [] OTHER -> ""

\* re.search(r'\b(\d{4})\b', founded_info): the first match, else "N/A"
RECURSIVE FirstYear(_)
FirstYear(toks) ==
    IF toks = <<>> THEN "N/A"
    ELSE IF YearInToken(Head(toks)) # "" THEN YearInToken(Head(toks))
    ELSE FirstYear(Tail(toks))

\* the failure sentinel: return None, None, None   (line 64)
UniverseFailure ==
    [ok |-> FALSE, tickers |-> <<>>, founded |-> <<>>, sector |-> <<>>, scrapedB |-> FALSE]

\* Step 1 (lines 50-64): only an exception gives the sentinel
ScrapeTickers(a) ==
    IF a.status # "ok" THEN [raised |-> TRUE, tickers |-> <<>>]
    ELSE [raised |-> FALSE,
          tickers |-> [i \in 1..Len(a.symbols) |-> NormalizeSymbol(a.symbols[i])]]

\* one row of the constituents table (lines 79-100): rows with too few cells
\* are passed over; an empty sector cell raises IndexError at split()[0],
\* which the inner handler turns into "continue"
WikiRowStep(wiki, row) ==
    IF ~(row.ncols > WikiMinCols) THEN wiki
    ELSE IF row.sector = <<>> THEN wiki
    ELSE LET t == NormalizeSymbol(row.ticker)
             entry == [founded |-> FirstYear(row.founded),
                       sector |-> LowerWord(Head(row.sector))]
         IN  [x \in DOMAIN wiki \cup {t} |-> IF x = t THEN entry ELSE wiki[x]]

RECURSIVE WikiFold(_, _)
WikiFold(wiki, rows) ==
    IF rows = <<>> THEN wiki ELSE WikiFold(WikiRowStep(wiki, Head(rows)), Tail(rows))

\* Step 2 (lines 66-105): every failure leaves wiki_data empty and goes on
ScrapeWiki(b) ==
    IF b.status # "ok" THEN <<>> ELSE WikiFold(<<>>, b.rows)

TickerSet(tickers) == {tickers[i] : i \in 1..Len(tickers)}

\* a plausible slip: keep only the tickers source B knows
MergeUniverseDropUnmatched(tickers, wiki) ==
    LET kept == SelectSeq(tickers, LAMBDA t : t \in DOMAIN wiki)
    IN  [ok |-> TRUE,
         tickers |-> kept,
         founded |-> [t \in TickerSet(kept) |-> wiki[t].founded],
         sector |-> [t \in TickerSet(kept) |-> wiki[t].sector],
         scrapedB |-> TRUE]

\* Step 3 (lines 107-120): every ticker of step 1 gets an entry
MergeUniverse(tickers, wiki) ==
    [ok |-> TRUE,
     tickers |-> tickers,
     founded |-> [t \in TickerSet(tickers) |->
                     IF t \in DOMAIN wiki THEN wiki[t].founded ELSE "N/A"],
     sector |-> [t \in TickerSet(tickers) |->
                     IF t \in DOMAIN wiki THEN wiki[t].sector ELSE "unknown"],
     scrapedB |-> TRUE]

GetSp500Data(a, b) ==
    LET s1 == ScrapeTickers(a)
    IN  IF s1.raised THEN UniverseFailure
        ELSE MergeUniverse(s1.tickers, ScrapeWiki(b))

(***************************************************************************)
(* SpecUniverse: one call of get_sp500_data on a pair of responses.        *)
(***************************************************************************)
CallGetSp500Data ==
    /\ ~uniDone
    /\ uniResult' = GetSp500Data(srcA, srcB)
    /\ uniDone' = TRUE
    /\ UNCHANGED <<srcA, srcB, symVars, dsVars, storeVars, otherVars>>


(***************************************************************************)
(* generate_ml_training_dataset.                                           *)
(*                                                                         *)
(* Floats are exact rationals n/d (d > 0) or NaN.  Dates are day numbers.  *)
(***************************************************************************)
MaxDate == 3
MaxArticles == 2

\* lookback_days: int = 365   (line 28)
DefaultLookbackDays == 365

DateSet == 1..MaxDate
PriceVals == {0, 100, 102}
Scores == {-50, 50}

NaN == [def |-> FALSE, n |-> 0, d |-> 1]
Float(n, d) == [def |-> TRUE, n |-> n, d |-> d]
FloatEq(x, y) == x.def = y.def /\ (x.def => x.n * y.d = y.n * x.d)

\* a price artifact as read back: close is the (ticker, "Close") column, a
\* cell per trading date of the index, NaN where the ticker had no bar
PricePanels ==
    UNION {[D -> {NaN} \cup {Float(v, 1) : v \in PriceVals}] : D \in SUBSET DateSet \ {{}}}

NoArtifact == [present |-> FALSE, readable |-> FALSE, hasClose |-> FALSE, close |-> <<>>]

\* what get_latest_csv_path(PRICE_DATA_DIR, ...) may lead to: nothing, a file
\* pandas cannot read with a two-level header (cut short by a writer still
\* at work), a panel without the ticker, or a panel with its Close column
\* (get_sp500_prices has dropped the all-NaN columns)
PriceInputs ==
    {NoArtifact,
     [present |-> TRUE, readable |-> FALSE, hasClose |-> FALSE, close |-> <<>>],
     [present |-> TRUE, readable |-> TRUE, hasClose |-> FALSE, close |-> <<>>]}
    \cup {[present |-> TRUE, readable |-> TRUE, hasClose |-> TRUE, close |-> c] :
            c \in {c \in PricePanels : \E d \in DOMAIN c : c[d].def}}

\* a news row: its index parses to a date (ok) or is coerced to NaT; score
\* is the headline's compound score in hundredths
ArticleKinds ==
    {[ok |-> TRUE, date |-> d, score |-> sc] : d \in DateSet, sc \in Scores}
    \cup {[ok |-> FALSE, date |-> 0, score |-> sc] : sc \in Scores}

ArticleKey(a) == a.date * 1000 + a.score

\* the rows of a news artifact; their order does not enter the aggregation,
\* so one order per multiset of rows is enumerated
ArticleLists ==
    {s \in SeqsUpTo(ArticleKinds, MaxArticles) :
        /\ Len(s) >= 1
        /\ \A i \in 1..(Len(s) - 1) : ArticleKey(s[i]) <= ArticleKey(s[i + 1])}

NoNews ==
    [present |-> FALSE, readable |-> FALSE, hasHeadline |-> FALSE, articles |-> <<>>]

\* what get_latest_csv_path(NEWS_DATA_DIR, ...) may lead to: nothing, a file
\* pandas cannot read, a table without a headline column (line 92 indexes
\* news_df["headline"]), or a table with one
NewsInputs ==
    {NoNews,
     [present |-> TRUE, readable |-> FALSE, hasHeadline |-> FALSE, articles |-> <<>>]}
    \cup {[present |-> TRUE, readable |-> TRUE, hasHeadline |-> FALSE, articles |-> s] :
            s \in {s \in ArticleLists : Len(s) = 1}}
    \cup {[present |-> TRUE, readable |-> TRUE, hasHeadline |-> TRUE, articles |-> s] :
            s \in ArticleLists}

LookbackChoices == {2, DefaultLookbackDays}

\* close.index >= datetime.now() - timedelta(days=lookback_days): the index
\* holds midnights and now() a time of day, so day (today - lookback) is out
InWindow(d, today, lookback) == d > today - lookback

RECURSIVE SortedSeq(_)
SortedSeq(S) ==
    IF S = {} THEN <<>>
    ELSE LET m == CHOOSE x \in S : \A y \in S : x <= y
         IN  <<m>> \o SortedSeq(S \ {m})

\* lines 60-63: dropna, then the lookback window; the dates that remain
CloseDates(close, today, lookback) ==
    SortedSeq({d \in DOMAIN close : close[d].def /\ InWindow(d, today, lookback)})

\* _safe_pct_change (lines 22-26) at position i of the series: p[i]/p[i-k] - 1,
\* NaN for the first k positions, and NaN again where the division gave
\* +-inf or 0/0
SafePctChange(close, dates, i, periods) ==
    IF i <= periods THEN NaN
    ELSE LET cur == close[dates[i]]
             prev == close[dates[i - periods]]
         IN  IF prev.n = 0 THEN NaN
             ELSE Float(cur.n * prev.d - prev.n * cur.d, prev.n * cur.d)

\* a plausible slip: shift(1) in place of shift(-1) (yesterday's return)
TargetShiftedForward(close, dates, i) ==
    IF i <= 1 THEN NaN ELSE SafePctChange(close, dates, i - 1, 1)

\* line 74: ret_1d.shift(-1)
TargetPctChange(close, dates, i) ==
    IF i >= Len(dates) THEN NaN ELSE SafePctChange(close, dates, i + 1, 1)

\* lines 84-85: rows whose index is NaT are dropped
DatedArticles(articles) == SelectSeq(articles, LAMBDA a : a.ok)

RECURSIVE SumScores(_)
SumScores(arts) == IF arts = <<>> THEN 0 ELSE Head(arts).score + SumScores(Tail(arts))

\* lines 95-100: mean of the raw scores of each date that has a row
DailySentDates(articles) ==
    {DatedArticles(articles)[i].date : i \in 1..Len(DatedArticles(articles))}

DailySentiment(articles, d) ==
    LET onDay == SelectSeq(DatedArticles(articles), LAMBDA a : a.date = d)
    IN  IF onDay = <<>> THEN NaN ELSE Float(SumScores(onDay), Len(onDay))

SeqRange(q) == {q[i] : i \in 1..Len(q)}
PosOf(q, x) == CHOOSE i \in 1..Len(q) : q[i] = x

\* rolling(3, min_periods=1) and rolling(7, min_periods=3)   (lines 103-104)
Window3 == 3
MinPeriods3 == 1
Window7 == 7
MinPeriods7 == 3

FloatAdd(x, y) == Float(x.n * y.d + y.n * x.d, x.d * y.d)

RECURSIVE FloatSum(_, _, _)
FloatSum(series, lo, hi) ==
    IF lo > hi THEN Float(0, 1)
    ELSE IF series[hi].def THEN FloatAdd(FloatSum(series, lo, hi - 1), series[hi])
    ELSE FloatSum(series, lo, hi - 1)

\* a plausible slip: min_periods left at 1
RollingMeanNoMinPeriods(series, i, window, minPeriods) ==
    LET lo == IF i - window + 1 < 1 THEN 1 ELSE i - window + 1
        seen == Cardinality({j \in lo..i : series[j].def})
        total == FloatSum(series, lo, i)
    IN  IF seen < 1 THEN NaN ELSE Float(total.n, total.d * seen)

\* Series.rolling(window, min_periods).mean() at row i: the window is the
\* last `window` rows of the series up to row i, whatever their dates; the
\* value is the mean of the defined cells among them, NaN when fewer than
\* min_periods of them are defined
RollingMean(series, i, window, minPeriods) ==
    LET lo == IF i - window + 1 < 1 THEN 1 ELSE i - window + 1
        seen == Cardinality({j \in lo..i : series[j].def})
        total == FloatSum(series, lo, i)
    IN  IF seen < minPeriods THEN NaN ELSE Float(total.n, total.d * seen)

\* lines 95-104: daily_sent, a row per date that has an article, in date
\* order, with the two rolling means over its rows
DailySentTable(articles) ==
    LET days == SortedSeq(DailySentDates(articles))
        daily == [i \in 1..Len(days) |-> DailySentiment(articles, days[i])]
    IN  [i \in 1..Len(days) |->
            [date |-> days[i],
             daily_sentiment |-> daily[i],
             sentiment_3d |-> RollingMean(daily, i, Window3, MinPeriods3),
             sentiment_7d |-> RollingMean(daily, i, Window7, MinPeriods7)]]

\* the row of daily_sent for date d, all NaN when the table has none
DailySentRow(table, d) ==
    IF \E i \in 1..Len(table) : table[i].date = d
    THEN table[CHOOSE i \in 1..Len(table) : table[i].date = d]
    ELSE [date |-> d, daily_sentiment |-> NaN, sentiment_3d |-> NaN,
          sentiment_7d |-> NaN]

\* one row of pd.concat([...], axis=1): the columns of every input, NaN where
\* an input has no entry for the date   (lines 107-110)
ConcatRow(close, dates, table, d) ==
    LET inPrice == d \in SeqRange(dates)
        i == IF inPrice THEN PosOf(dates, d) ELSE 0
        sent == DailySentRow(table, d)
    IN  [daily_sentiment |-> sent.daily_sentiment,
         sentiment_3d |-> sent.sentiment_3d,
         sentiment_7d |-> sent.sentiment_7d,
         Close_Price_T |-> IF inPrice THEN close[d] ELSE NaN,
         ret_1d |-> IF inPrice THEN SafePctChange(close, dates, i, 1) ELSE NaN,
         ret_5d |-> IF inPrice THEN SafePctChange(close, dates, i, 5) ELSE NaN,
         ret_20d |-> IF inPrice THEN SafePctChange(close, dates, i, 20) ELSE NaN,
         Target_Pct_Change |-> IF inPrice THEN TargetPctChange(close, dates, i) ELSE NaN]

AllNaN(r) ==
    /\ ~r.daily_sentiment.def /\ ~r.sentiment_3d.def /\ ~r.sentiment_7d.def
    /\ ~r.Close_Price_T.def /\ ~r.ret_1d.def
    /\ ~r.ret_5d.def /\ ~r.ret_20d.def /\ ~r.Target_Pct_Change.def

\* a plausible slip: join="inner" in the concat
MergedDatesInner(dates, articles) == DailySentDates(articles) \cap SeqRange(dates)

\* pd.concat(axis=1) joins on the union of the indexes
MergedDates(dates, articles) == DailySentDates(articles) \cup SeqRange(dates)

\* lines 107-109: the concatenated frame, a row per date of either index
ConcatFrame(close, dates, articles) ==
    LET table == DailySentTable(articles)
    IN  [d \in MergedDates(dates, articles) |-> ConcatRow(close, dates, table, d)]

\* lines 110-113: dropna(how="all"), then the rows whose target is defined
KeptDates(frame) ==
    {d \in DOMAIN frame : ~AllNaN(frame[d]) /\ frame[d].Target_Pct_Change.def}

\* lines 106-117: the feature table, a row per kept date
FeatureRows(close, dates, articles, sector) ==
    LET frame == ConcatFrame(close, dates, articles)
    IN  [d \in KeptDates(frame) |->
            [daily_sentiment |-> frame[d].daily_sentiment,
             sentiment_3d |-> frame[d].sentiment_3d,
             sentiment_7d |-> frame[d].sentiment_7d,
             Close_Price_T |-> frame[d].Close_Price_T,
             ret_1d |-> frame[d].ret_1d,
             ret_5d |-> frame[d].ret_5d,
             ret_20d |-> frame[d].ret_20d,
             Target_Pct_Change |-> frame[d].Target_Pct_Change,
             Sector_Name |-> sector,
             Sector_Feature |-> 0]]

\* what one call does: outcome is "None", "table" or "raise"; newsLookup,
\* mkdir, saveCalled and written tell how far the call went
DatasetReturn(outcome, rows, newsLookup, tail) ==
    [outcome |-> outcome, rows |-> rows, newsLookup |-> newsLookup,
     mkdir |-> tail, saveCalled |-> tail, written |-> tail /\ rows # <<>>]

\* a plausible slip: an empty table reported as None
FinishDatasetNoneWhenEmpty(rows) ==
    IF rows = <<>> THEN DatasetReturn("None", <<>>, TRUE, TRUE)
    ELSE DatasetReturn("table", rows, TRUE, TRUE)

\* lines 119-125: mkdir, save_data_to_csv (which refuses an empty table),
\* return feat
FinishDataset(rows) == DatasetReturn("table", rows, TRUE, TRUE)

\* a plausible slip: both artifacts located up front, before the price
\* stage is checked
GenerateLooksUpNewsFirst(price, news, today, lookback, sector) ==
    IF ~price.present THEN DatasetReturn("None", <<>>, TRUE, FALSE)
    ELSE IF ~price.readable THEN DatasetReturn("raise", <<>>, TRUE, FALSE)
    ELSE IF ~price.hasClose THEN DatasetReturn("None", <<>>, TRUE, FALSE)
    ELSE LET dates == CloseDates(price.close, today, lookback)
         IN  IF dates = <<>> THEN DatasetReturn("None", <<>>, TRUE, FALSE)
             ELSE IF ~news.present THEN DatasetReturn("None", <<>>, TRUE, FALSE)
             ELSE IF ~news.readable THEN DatasetReturn("raise", <<>>, TRUE, FALSE)
             ELSE IF ~news.hasHeadline THEN DatasetReturn("raise", <<>>, TRUE, FALSE)
             ELSE FinishDataset(FeatureRows(price.close, dates, news.articles, sector))

\* generate_ml_training_dataset, lines 28-125: pd.read_csv (lines 52, 82)
\* and news_df["headline"] (line 92) are outside any try, so what they
\* raise leaves the function
GenerateMlTrainingDataset(price, news, today, lookback, sector) ==
    IF ~price.present THEN DatasetReturn("None", <<>>, FALSE, FALSE)
    ELSE IF ~price.readable THEN DatasetReturn("raise", <<>>, FALSE, FALSE)
    ELSE IF ~price.hasClose THEN DatasetReturn("None", <<>>, FALSE, FALSE)
    ELSE LET dates == CloseDates(price.close, today, lookback)
         IN  IF dates = <<>> THEN DatasetReturn("None", <<>>, FALSE, FALSE)
             ELSE IF ~news.present THEN DatasetReturn("None", <<>>, TRUE, FALSE)
             ELSE IF ~news.readable THEN DatasetReturn("raise", <<>>, TRUE, FALSE)
             ELSE IF ~news.hasHeadline THEN DatasetReturn("raise", <<>>, TRUE, FALSE)
             ELSE FinishDataset(FeatureRows(price.close, dates, news.articles, sector))

(***************************************************************************)
(* SpecDataset: one call of generate_ml_training_dataset on a pair of      *)
(* latest artifacts, run on day Today.                                     *)
(***************************************************************************)
Today == MaxDate
SectorNames == {"unknown", "health"}
NoDatasetResult == DatasetReturn("None", <<>>, FALSE, FALSE)

CallGenerateMlTrainingDataset ==
    /\ ~dsDone
    /\ \E lookback \in LookbackChoices, sector \in SectorNames :
          /\ dsLookback' = lookback
          /\ dsResult' = GenerateMlTrainingDataset(dsPrice, dsNews, Today, lookback, sector)
    /\ dsDone' = TRUE
    /\ UNCHANGED <<dsPrice, dsNews, symVars, uniVars, storeVars, otherVars>>

(***************************************************************************)
(* The artifact store and the handlers that use it (Spec).                 *)
(*                                                                         *)
(* Two clocks: `clock` counts the ticks of the file system's timestamp     *)
(* (st_mtime), `second` is the wall-clock second strftime("%Y%m%d_%H%M%S") *)
(* puts into a file name.  A tick may or may not start a new second.       *)
(***************************************************************************)
MaxClock == 2
MaxRuns == 3
\* two workers serve requests and jobs side by side
Workers == {"w1", "w2"}

PriceDir == "data/raw/sp500"
NewsDir == "data/raw/news"
MlDir == "data/processed"

\* file name stems
NewsKind == "market_news_sentiment"
WebPullKind == "sp500_prices_web_pull"
CliKind == "sp500_prices"
MlKind == "ml_data_T"

\* the glob patterns of generate_ml_training_dataset (lines 47 and 77)
PricePattern == "sp500_prices_web_pull_*.csv"
NewsPattern == "market_news_sentiment_*.csv"

\* Path.glob(pattern) on a name <kind>_<YYYYMMDD_HHMMSS>.csv: the stem before
\* the star has to be the start of the name; "sp500_prices_web_pull_" is not
\* the start of "sp500_prices_2023..."
GlobMatches(pattern, name) ==
    \/ pattern = PricePattern /\ name.kind = WebPullKind
    \/ pattern = NewsPattern /\ name.kind = NewsKind

\* directory.glob(pattern)
GlobFiles(dir, pattern) == {f \in files : f.dir = dir /\ GlobMatches(pattern, f.name)}

\* a plausible slip: reverse=True left out, the oldest file comes first
OldestFirst(matches) == {f \in matches : \A g \in matches : f.mtime <= g.mtime}

\* sorted(..., key=st_mtime, reverse=True)[0]: the sort is stable and glob's
\* order is the directory's, so among files of equal mtime any may come first
NewestFirst(matches) == {f \in matches : \A g \in matches : g.mtime <= f.mtime}

NoFile ==
    [dir |-> "", name |-> [kind |-> "", stamp |-> 0], mtime |-> 0, data |-> NoArtifact]

\* get_latest_csv_path (lines 220-238): the set of values it may return;
\* NoFile stands for None
GetLatestCsvPath(dir, pattern) ==
    IF dir \notin dirs THEN {NoFile}
    ELSE IF GlobFiles(dir, pattern) = {} THEN {NoFile}
    ELSE NewestFirst(GlobFiles(dir, pattern))

\* a call of get_latest_csv_path as an observer sees it: the arguments, the
\* directory as it was (there or not, and its listing), and the value returned
Lookup(dir, pattern, result) ==
    [called |-> TRUE, dir |-> dir, pattern |-> pattern, dirExists |-> dir \in dirs,
     listing |-> {f \in files : f.dir = dir},
     result |-> result]

NoLookup ==
    [called |-> FALSE, dir |-> "", pattern |-> "", dirExists |-> FALSE,
     listing |-> {}, result |-> NoFile]

\* save_data_to_csv (lines 181-197): nothing for None or an empty table;
\* otherwise mkdir and to_csv, which truncates a file already at the path.
\* Gives the directories and files afterwards.
SaveDataToCsv(empty, dir, name, data) ==
    IF empty THEN [dirs |-> dirs, files |-> files]
    ELSE [dirs |-> dirs \cup {dir},
          files |-> {f \in files : ~(f.dir = dir /\ f.name = name)}
                    \cup {[dir |-> dir, name |-> name, mtime |-> clock, data |-> data]}]

\* the call writes to a path that holds a file; no run saves twice, so the
\* file is the artifact of another run
WritesOver(empty, dir, name) ==
    /\ ~empty
    /\ \E f \in files : f.dir = dir /\ f.name = name

Idle == [op |-> "idle", stamp |-> 0, price |-> NoArtifact]

\* the clocks move on
Tick ==
    /\ clock < MaxClock
    /\ clock' = clock + 1
    /\ second' \in {second, second + 1}
    /\ UNCHANGED <<dirs, files, pc, nextRun, persistRequested, saveInvoked,
                   clobbered, lastLookup, symVars, uniVars, dsVars, otherVars>>

\* a request starts: index (web.py line 30) and predict (line 89) first build
\* the time-stamped file name.  `save` is the request's save=1 parameter,
\* which no handler reads.
Begin(w, op) ==
    /\ pc[w] = Idle
    /\ nextRun <= MaxRuns
    /\ \E save \in BOOLEAN : persistRequested' = (persistRequested \/ save)
    /\ pc' = [pc EXCEPT ![w] = [op |-> op, stamp |-> second, price |-> NoArtifact]]
    /\ nextRun' = nextRun + 1
    /\ UNCHANGED <<clock, second, dirs, files, saveInvoked, clobbered, lastLookup,
                   symVars, uniVars, dsVars, otherVars>>

BeginIndex(w) == Begin(w, "index")
BeginPredict(w) == Begin(w, "predict")

\* what a caller does with the table it has: the call of save_data_to_csv
CallSave(empty, dir, name, data) ==
    LET after == SaveDataToCsv(empty, dir, name, data)
    IN  /\ dirs' = after.dirs
        /\ files' = after.files
        /\ saveInvoked' = TRUE
        /\ clobbered' = (clobbered \/ WritesOver(empty, dir, name))

StampedName(kind, stamp) == [kind |-> kind, stamp |-> stamp]

Return(w) == pc' = [pc EXCEPT ![w] = Idle]

\* get_market_news('general') as index sees it: None, an empty list, or
\* articles (the provider's datetime is epoch seconds, always a date)
FetchedNews ==
    {NoNews,
     [present |-> TRUE, readable |-> TRUE, hasHeadline |-> TRUE, articles |-> <<>>],
     [present |-> TRUE, readable |-> TRUE, hasHeadline |-> TRUE,
      articles |-> <<[ok |-> TRUE, date |-> MaxDate - 1, score |-> 50]>>]}

\* index, lines 33-61: the news table is saved whenever the list is non-empty
FinishIndex(w) ==
    /\ pc[w].op = "index"
    /\ \E news \in FetchedNews :
          IF news.present /\ news.articles # <<>>
          THEN CallSave(FALSE, NewsDir, StampedName(NewsKind, pc[w].stamp), news)
          ELSE UNCHANGED <<dirs, files, saveInvoked, clobbered>>
    /\ Return(w)
    /\ UNCHANGED <<clock, second, nextRun, persistRequested, lastLookup,
                   symVars, uniVars, dsVars, otherVars>>

\* get_sp500_prices as its callers see it: None, or the pruned panel, with
\* or without columns for the ticker the dataset is built for
FetchedPrices ==
    {NoArtifact,
     [present |-> TRUE, readable |-> TRUE, hasClose |-> FALSE, close |-> <<>>],
     [present |-> TRUE, readable |-> TRUE, hasClose |-> TRUE,
      close |-> [d \in {MaxDate - 1, MaxDate} |->
                    IF d = MaxDate THEN Float(102, 1) ELSE Float(100, 1)]]}

\* get_sp500_data as its callers see it: the sentinel, no ticker, one, two
UniverseResponses ==
    {GetSp500Data(a, [status |-> "http_error", rows |-> <<>>]) :
        a \in {r \in SourceAResponses :
                 \A i \in 1..Len(r.symbols) : r.symbols[i] = <<"A">>}}

\* predict, lines 92-116: no ticker list, no price fetch; the price panel is
\* saved whenever there is one
FinishPredict(w) ==
    /\ pc[w].op = "predict"
    /\ \E uni \in UniverseResponses, prices \in FetchedPrices :
          IF uni.tickers # <<>> /\ prices.present
          THEN CallSave(FALSE, PriceDir, StampedName(WebPullKind, pc[w].stamp), prices)
          ELSE UNCHANGED <<dirs, files, saveInvoked, clobbered>>
    /\ Return(w)
    /\ UNCHANGED <<clock, second, nextRun, persistRequested, lastLookup,
                   symVars, uniVars, dsVars, otherVars>>

\* the get_data.py script run from a shell, lines 261-312, start to end:
\* the panel is saved only on the branch for fewer than two sample tickers
RunCli ==
    /\ nextRun <= MaxRuns
    /\ \E save \in BOOLEAN : persistRequested' = (persistRequested \/ save)
    /\ \E uni \in UniverseResponses, prices \in FetchedPrices :
          IF uni.ok /\ uni.tickers # <<>> /\ prices.present /\ Len(uni.tickers) < 2
          THEN CallSave(FALSE, PriceDir, StampedName(CliKind, second), prices)
          ELSE UNCHANGED <<dirs, files, saveInvoked, clobbered>>
    /\ nextRun' = nextRun + 1
    /\ UNCHANGED <<clock, second, pc, lastLookup, symVars, uniVars, dsVars, otherVars>>

\* generate_ml_training_dataset, lines 44-74: the latest price artifact is
\* looked up and read; the call ends here unless the price stage passes.
\* The function has no parameter that would hold a persist flag.
GeneratePriceStage(w) ==
    /\ pc[w] = Idle
    /\ nextRun <= MaxRuns
    /\ \E f \in GetLatestCsvPath(PriceDir, PricePattern) :
          /\ lastLookup' = Lookup(PriceDir, PricePattern, f)
          /\ LET price == IF f = NoFile THEN NoArtifact ELSE f.data
                 r == GenerateMlTrainingDataset(price, NoNews, Today,
                                                DefaultLookbackDays, "unknown")
             IN  pc' = [pc EXCEPT ![w] =
                           IF r.newsLookup
                           THEN [op |-> "generate", stamp |-> 0, price |-> price]
                           ELSE Idle]
    /\ nextRun' = nextRun + 1
    /\ UNCHANGED <<clock, second, dirs, files, persistRequested, saveInvoked,
                   clobbered, symVars, uniVars, dsVars, otherVars>>

\* generate_ml_training_dataset, lines 76-125: the latest news artifact is
\* looked up and read, the table built, the directory made, the table saved
\* under a name stamped at that moment
GenerateNewsStage(w) ==
    /\ pc[w].op = "generate"
    /\ \E f \in GetLatestCsvPath(NewsDir, NewsPattern), sector \in SectorNames :
          /\ lastLookup' = Lookup(NewsDir, NewsPattern, f)
          /\ LET news == IF f = NoFile THEN NoNews ELSE f.data
                 r == GenerateMlTrainingDataset(pc[w].price, news, Today,
                                                DefaultLookbackDays, sector)
                 name == [kind |-> MlKind, stamp |-> second]
                 made == IF r.mkdir THEN dirs \cup {MlDir} ELSE dirs
                 data == [present |-> TRUE, readable |-> TRUE, table |-> r.rows]
             IN  /\ dirs' = made
                 /\ files' = IF r.written
                             THEN {g \in files : ~(g.dir = MlDir /\ g.name = name)}
                                  \cup {[dir |-> MlDir, name |-> name, mtime |-> clock,
                                         data |-> data]}
                             ELSE files
                 /\ saveInvoked' = (saveInvoked \/ r.saveCalled)
                 /\ clobbered' = (clobbered \/ (r.saveCalled
                                     /\ WritesOver(~r.written, MlDir, name)))
    /\ Return(w)
    /\ UNCHANGED <<clock, second, nextRun, persistRequested, symVars, uniVars, dsVars, otherVars>>

(***************************************************************************)
(* SpecRolling: the daily sentiment table of generate_ml_training_dataset  *)
(* over news artifacts that span more days than the rolling windows.       *)
(***************************************************************************)
MaxRollDays == 8

\* the articles of one day: none, one headline scoring 0.50, or two
\* headlines scoring -0.50 and 0.20
DayChoices == {<<>>, <<50>>, <<-50, 20>>}

RECURSIVE ArticlesOf(_, _)
ArticlesOf(f, d) ==
    IF d = 0 THEN <<>>
    ELSE ArticlesOf(f, d - 1)
         \o [i \in 1..Len(f[d]) |-> [ok |-> TRUE, date |-> d, score |-> f[d][i]]]

RollNewsInputs == {ArticlesOf(f, MaxRollDays) : f \in [1..MaxRollDays -> DayChoices]}

CallDailySentiment ==
    /\ ~rlDone
    /\ rlTable' = DailySentTable(rlNews)
    /\ rlDone' = TRUE
    /\ UNCHANGED <<rlNews, symVars, uniVars, dsVars, storeVars, scVars, mpVars, nwVars,
                   prVars>>

(***************************************************************************)
(* scripts/polarity_analysis.py: the compound score and its label.  The    *)
(* analyzer rounds the compound score to four places; scores are held in   *)
(* ten-thousandths, so 0.05 is 500.                                        *)
(***************************************************************************)
ScoreSpread == 5

\* if score >= 0.05 / elif score <= -0.05   (lines 22, 24)
PositiveThreshold == 500
NegativeThreshold == -500

CompoundVals ==
    {-10000, 0, 10000}
    \cup ((NegativeThreshold - ScoreSpread)..(NegativeThreshold + ScoreSpread))
    \cup ((PositiveThreshold - ScoreSpread)..(PositiveThreshold + ScoreSpread))

\* what a caller may pass: the empty string, a string (with the compound
\* score the lexicon gives it), None, a number
Texts ==
    {[kind |-> "empty", compound |-> 0]}
    \cup {[kind |-> "str", compound |-> c] : c \in CompoundVals}
    \cup {[kind |-> k, compound |-> 0] : k \in {"None", "number"}}

IsString(text) == text.kind \in {"empty", "str"}

\* analyzer.polarity_scores(text)['compound'] (lines 20, 34): the analyzer
\* walks the characters of text, so anything that is not a string makes
\* the call raise; neither function catches it.  A string without a
\* lexicon word, the empty one included, scores 0.0.
PolarityScores(text) ==
    IF IsString(text) THEN [raised |-> FALSE, compound |-> text.compound]
    ELSE [raised |-> TRUE, compound |-> 0]

\* the docstring's reading of the thresholds: strictly above, strictly below
GetSentimentScoreStrict(text) ==
    LET r == PolarityScores(text)
    IN  IF r.raised THEN "raise"
        ELSE IF r.compound > PositiveThreshold THEN "Positive"
        ELSE IF r.compound < NegativeThreshold THEN "Negative"
        ELSE "Neutral"

\* get_sentiment_score, lines 8-27
GetSentimentScore(text) ==
    LET r == PolarityScores(text)
    IN  IF r.raised THEN "raise"
        ELSE IF r.compound >= PositiveThreshold THEN "Positive"
        ELSE IF r.compound <= NegativeThreshold THEN "Negative"
        ELSE "Neutral"

\* get_compound_score, lines 30-34
GetCompoundScore(text) == PolarityScores(text)

NotCalled == [called |-> FALSE, raised |-> FALSE, compound |-> 0]

ApplyGetSentimentScore ==
    /\ scLabel = "none"
    /\ scLabel' = GetSentimentScore(scText)
    /\ UNCHANGED <<scText, scScore, symVars, uniVars, dsVars, storeVars, rlVars, mpVars, nwVars,
                   prVars>>

ApplyGetCompoundScore ==
    /\ ~scScore.called
    /\ scScore' = [called |-> TRUE, raised |-> GetCompoundScore(scText).raised,
                   compound |-> GetCompoundScore(scText).compound]
    /\ UNCHANGED <<scText, scLabel, symVars, uniVars, dsVars, storeVars, rlVars, mpVars, nwVars,
                   prVars>>

(***************************************************************************)
(* scripts/StockSentimentMapper.py: the two keyword tables and the lookups *)
(* over them.  Headlines and keywords are sequences of characters.         *)
(***************************************************************************)
MaxHeadlineWords == 2

UpperCase == <<"A", "B", "C", "D", "E", "F", "G", "H", "I", "J", "K", "L", "M",
               "N", "O", "P", "Q", "R", "S", "T", "U", "V", "W", "X", "Y", "Z">>
LowerCase == <<"a", "b", "c", "d", "e", "f", "g", "h", "i", "j", "k", "l", "m",
               "n", "o", "p", "q", "r", "s", "t", "u", "v", "w", "x", "y", "z">>

\* str.lower(), character by character
LowerChar(c) ==
    IF \E i \in 1..Len(UpperCase) : UpperCase[i] = c
    THEN LowerCase[CHOOSE i \in 1..Len(UpperCase) : UpperCase[i] = c]
    ELSE c
LowerStr(str) == [i \in 1..Len(str) |-> LowerChar(str[i])]

\* `needle in haystack` of two strings
IsSubstring(needle, haystack) ==
    \E i \in 0..(Len(haystack) - Len(needle)) :
        SubSeq(haystack, i + 1, i + Len(needle)) = needle

\* keyword.lower() in headline.lower()   (lines 87, 97)
KeywordIn(chars, headline) == IsSubstring(LowerStr(chars), LowerStr(headline))

\* self.sector_sentiment_map (lines 17-32), in the order the dict holds it
SectorSentimentMap ==
    <<[sector |-> "defense",
       keywords |->
        <<[keyword |-> "war", chars |-> <<"w", "a", "r">>,
           sentiment |-> "positive"],
          [keyword |-> "conflict", chars |-> <<"c", "o", "n", "f", "l", "i", "c", "t">>,
           sentiment |-> "positive"],
          [keyword |-> "military_spending", chars |-> <<"m", "i", "l", "i", "t", "a", "r", "y", "_", "s", "p", "e", "n", "d", "i", "n", "g">>,
           sentiment |-> "positive"]>>],
      [sector |-> "tech",
       keywords |->
        <<[keyword |-> "war", chars |-> <<"w", "a", "r">>,
           sentiment |-> "negative"],
          [keyword |-> "cybersecurity_threat", chars |-> <<"c", "y", "b", "e", "r", "s", "e", "c", "u", "r", "i", "t", "y", "_", "t", "h", "r", "e", "a", "t">>,
           sentiment |-> "negative"],
          [keyword |-> "chip_shortage", chars |-> <<"c", "h", "i", "p", "_", "s", "h", "o", "r", "t", "a", "g", "e">>,
           sentiment |-> "negative"]>>],
      [sector |-> "healthcare",
       keywords |->
        <<[keyword |-> "pandemic", chars |-> <<"p", "a", "n", "d", "e", "m", "i", "c">>,
           sentiment |-> "complex"],
          [keyword |-> "medical_breakthrough", chars |-> <<"m", "e", "d", "i", "c", "a", "l", "_", "b", "r", "e", "a", "k", "t", "h", "r", "o", "u", "g", "h">>,
           sentiment |-> "positive"]>>]>>

\* self.keyword_impact_matrix (lines 50-61); weights in tenths
KeywordImpactMatrix ==
    <<[keyword |-> "war", chars |-> <<"w", "a", "r">>,
       impacts |-> [defense_stocks |-> 7, tech_stocks |-> -5, energy_stocks |-> 3]],
      [keyword |-> "pandemic", chars |-> <<"p", "a", "n", "d", "e", "m", "i", "c">>,
       impacts |-> [healthcare_stocks |-> 6, tech_stocks |-> 4, retail_stocks |-> -3]]>>

\* the words headlines are made of
HeadlineWords ==
    {<<"W", "a", "r">>,
     <<"w", "a", "r", "n", "s">>,
     <<"p", "a", "n", "d", "e", "m", "i", "c">>,
     <<"m", "e", "d", "i", "c", "a", "l", "_", "b", "r", "e", "a", "k", "t", "h", "r", "o", "u", "g", "h">>,
     <<"c", "o", "n", "f", "l", "i", "c", "t">>,
     <<"C", "h", "i", "p", "_", "S", "h", "o", "r", "t", "a", "g", "e">>,
     <<"p", "e", "a", "c", "e">>,
     <<"m", "e", "d", "i", "c", "a", "l">>,
     <<"b", "r", "e", "a", "k", "t", "h", "r", "o", "u", "g", "h">>}

RECURSIVE JoinWords(_)
JoinWords(ws) ==
    IF ws = <<>> THEN <<>>
    ELSE IF Len(ws) = 1 THEN ws[1]
    ELSE ws[1] \o <<" ">> \o JoinWords(Tail(ws))

Headlines == {JoinWords(ws) : ws \in SeqsUpTo(HeadlineWords, MaxHeadlineWords)}

\* the inner loop of lines 86-88 over one sector's keywords, from the k-th
\* on: every matching keyword assigns sector_impacts[sector]
RECURSIVE SectorLoop(_, _, _, _)
SectorLoop(impacts, entry, k, headline) ==
    IF k > Len(entry.keywords) THEN impacts
    ELSE LET kw == entry.keywords[k]
             next == IF KeywordIn(kw.chars, headline)
                     THEN [s \in DOMAIN impacts \cup {entry.sector} |->
                              IF s = entry.sector THEN kw.sentiment ELSE impacts[s]]
                     ELSE impacts
         IN  SectorLoop(next, entry, k + 1, headline)

RECURSIVE SectorMapLoop(_, _, _)
SectorMapLoop(impacts, j, headline) ==
    IF j > Len(SectorSentimentMap) THEN impacts
    ELSE SectorMapLoop(SectorLoop(impacts, SectorSentimentMap[j], 1, headline),
                       j + 1, headline)

\* _determine_sector_impact, lines 80-89
DetermineSectorImpact(headline) == SectorMapLoop(<<>>, 1, headline)

\* _extract_keyword_impacts, lines 91-99
ExtractKeywordImpacts(headline) ==
    LET hit == {j \in 1..Len(KeywordImpactMatrix) :
                  KeywordIn(KeywordImpactMatrix[j].chars, headline)}
    IN  [kw \in {KeywordImpactMatrix[j].keyword : j \in hit} |->
            KeywordImpactMatrix[CHOOSE j \in hit :
                                  KeywordImpactMatrix[j].keyword = kw].impacts]

NotAsked == [asked |-> FALSE, answer |-> <<>>]

CallDetermineSectorImpact ==
    /\ ~mpSectorImpact.asked
    /\ mpSectorImpact' = [asked |-> TRUE, answer |-> DetermineSectorImpact(mpHeadline)]
    /\ UNCHANGED <<mpHeadline, mpKeywordWeights, symVars, uniVars, dsVars, storeVars,
                   scVars, rlVars, nwVars, prVars>>

CallExtractKeywordImpacts ==
    /\ ~mpKeywordWeights.asked
    /\ mpKeywordWeights' = [asked |-> TRUE, answer |-> ExtractKeywordImpacts(mpHeadline)]
    /\ UNCHANGED <<mpHeadline, mpSectorImpact, symVars, uniVars, dsVars, storeVars,
                   scVars, rlVars, nwVars, prVars>>

(***************************************************************************)
(* News retrieval: get_market_news of scripts/get_data.py and of           *)
(* scripts/get_finnhub_data.py, and what index does with the answer.       *)
(***************************************************************************)
MaxProviderArticles == 2

Categories == {"general", "forex", "crypto"}

\* the module-level finnhub_client: None (no key, or the constructor
\* raised), or a client that has or lacks each of the two methods and whose
\* request either raises or answers with a list of `count` articles
NoClient ==
    [configured |-> FALSE, hasMarketNews |-> FALSE, hasGeneralNews |-> FALSE,
     fails |-> FALSE, count |-> 0]

Providers ==
    {NoClient}
    \cup [configured : {TRUE}, hasMarketNews : BOOLEAN, hasGeneralNews : BOOLEAN,
          fails : BOOLEAN, count : 0..MaxProviderArticles]

\* what a call returns: None or a list of `count` articles; queried is the
\* requests the call made of the client, in order
NewsNone(queried) == [value |-> "None", count |-> 0, queried |-> queried]
NewsList(n, queried) == [value |-> "list", count |-> n, queried |-> queried]

Query(method, category) == [method |-> method, category |-> category]

\* scripts/get_data.py get_market_news, lines 156-177
GetMarketNews(client, category) ==
    IF ~client.configured THEN NewsNone(<<>>)
    ELSE IF client.hasMarketNews
    THEN IF client.fails THEN NewsNone(<<Query("market_news", category)>>)
         ELSE NewsList(client.count, <<Query("market_news", category)>>)
    ELSE IF ~client.hasGeneralNews THEN NewsNone(<<>>)
    ELSE IF client.fails THEN NewsNone(<<Query("general_news", category)>>)
    ELSE NewsList(client.count, <<Query("general_news", category)>>)

\* scripts/get_finnhub_data.py get_market_news, lines 11-30: the request is
\* general_news('general', min_id=0) whatever the argument
FinnhubGetMarketNews(client, category) ==
    IF ~client.configured THEN NewsNone(<<>>)
    ELSE IF ~client.hasGeneralNews THEN NewsNone(<<>>)
    ELSE IF client.fails THEN NewsNone(<<Query("general_news", "general")>>)
    ELSE NewsList(client.count, <<Query("general_news", "general")>>)

\* index, lines 33-61: `if news_list:` scores and saves the articles, and
\* the page is rendered with news_list either way
IndexHandling(newsList) ==
    IF newsList.value = "list" /\ newsList.count > 0
    THEN [branch |-> "score_and_save", saveCalled |-> TRUE, response |-> "page"]
    ELSE [branch |-> "skip", saveCalled |-> FALSE, response |-> "page"]

NoCall == [done |-> FALSE, impl |-> "none", category |-> "general", result |-> NewsNone(<<>>)]
NoIndexRun ==
    [done |-> FALSE, newsList |-> NewsNone(<<>>), handling |-> IndexHandling(NewsNone(<<>>))]

CallGetMarketNews ==
    /\ ~nwCall.done
    /\ \E category \in Categories :
          nwCall' = [done |-> TRUE, impl |-> "get_data", category |-> category,
                     result |-> GetMarketNews(nwProvider, category)]
    /\ UNCHANGED <<nwProvider, nwIndex, symVars, uniVars, dsVars, storeVars,
                   scVars, rlVars, mpVars, prVars>>

CallFinnhubGetMarketNews ==
    /\ ~nwCall.done
    /\ \E category \in Categories :
          nwCall' = [done |-> TRUE, impl |-> "get_finnhub_data", category |-> category,
                     result |-> FinnhubGetMarketNews(nwProvider, category)]
    /\ UNCHANGED <<nwProvider, nwIndex, symVars, uniVars, dsVars, storeVars,
                   scVars, rlVars, mpVars, prVars>>

\* index calls get_market_news('general') of scripts/get_data.py
RunIndex ==
    /\ ~nwIndex.done
    /\ LET newsList == GetMarketNews(nwProvider, "general")
       IN  nwIndex' = [done |-> TRUE, newsList |-> newsList,
                       handling |-> IndexHandling(newsList)]
    /\ UNCHANGED <<nwProvider, nwCall, symVars, uniVars, dsVars, storeVars,
                   scVars, rlVars, mpVars, prVars>>

(***************************************************************************)
(* scripts/get_data.py get_sp500_prices: the panel yf.download gives, with *)
(* a column per (ticker, field) and a row per trading date.                *)
(***************************************************************************)
MaxPriceRows == 2

PriceTickers == {"A", "B"}
PriceFields == {"Close", "Volume"}
PriceCells == {NaN, Float(100, 1)}

NoTickers == [given |-> FALSE, list |-> <<>>]
TickerArgs ==
    {NoTickers}
    \cup {[given |-> TRUE, list |-> l] : l \in {<<>>, <<"A">>, <<"A", "B">>}}

\* the ticker list get_sp500_data returns when asked (empty on failure)
UniverseLists == {<<>>, <<"A">>, <<"A", "B">>}

\* what yf.download may give for a list of tickers: an exception, or a
\* panel with the columns of the requested tickers over some rows, a cell
\* NaN where the ticker had no bar
PanelsFor(tickers) ==
    LET cols == SeqRange(tickers) \X PriceFields
    IN  UNION {{[kind |-> "panel", rows |-> 1..n, cells |-> c] :
                   c \in [cols -> [1..n -> PriceCells]]} : n \in 0..MaxPriceRows}

Downloads(tickers) == {[kind |-> "raise", rows |-> {}, cells |-> <<>>]} \cup PanelsFor(tickers)

\* DataFrame.empty: no row or no column
PanelEmpty(panel) == panel.rows = {} \/ DOMAIN panel.cells = {}

\* a plausible slip: how='any', which drops every column with a gap
DropAnyNaNColumns(panel) ==
    LET kept == {c \in DOMAIN panel.cells : \A r \in panel.rows : panel.cells[c][r].def}
    IN  [kind |-> "panel", rows |-> panel.rows, cells |-> [c \in kept |-> panel.cells[c]]]

\* data.dropna(axis=1, how='all')   (line 145)
DropAllNaNColumns(panel) ==
    LET kept == {c \in DOMAIN panel.cells : \E r \in panel.rows : panel.cells[c][r].def}
    IN  [kind |-> "panel", rows |-> panel.rows, cells |-> [c \in kept |-> panel.cells[c]]]

NoPanel == [kind |-> "None", rows |-> {}, cells |-> <<>>]
NotDownloaded == [kind |-> "not_called", rows |-> {}, cells |-> <<>>]

\* the list the download is asked for: the argument, or with tickers=None
\* the list of get_sp500_data   (lines 126-136)
RequestedTickers(tickers, universe) == IF tickers.given THEN tickers.list ELSE universe

\* get_sp500_prices, lines 123-152, given what the download answers
GetSp500Prices(tickers, universe, download) ==
    IF ~tickers.given /\ universe = <<>> THEN NoPanel
    ELSE IF download.kind = "raise" THEN NoPanel
    ELSE IF PanelEmpty(download) THEN NoPanel
    ELSE IF PanelEmpty(DropAllNaNColumns(download)) THEN NoPanel
    ELSE DropAllNaNColumns(download)

CallGetSp500Prices ==
    /\ ~prDone
    /\ IF ~prTickers.given /\ prUniverse = <<>>
       THEN /\ prDownload' = NotDownloaded
            /\ prResult' = GetSp500Prices(prTickers, prUniverse, NotDownloaded)
       ELSE \E download \in Downloads(RequestedTickers(prTickers, prUniverse)) :
               /\ prDownload' = download
               /\ prResult' = GetSp500Prices(prTickers, prUniverse, download)
    /\ prDone' = TRUE
    /\ UNCHANGED <<prTickers, prUniverse, symVars, uniVars, dsVars, storeVars,
                   scVars, rlVars, mpVars, nwVars>>

(***************************************************************************)
(* Initial states and specifications.                                      *)
(***************************************************************************)
SymQuiet == symIn = <<>> /\ symOut = <<>> /\ symOp = "none"
UniQuiet ==
    /\ srcA = [status |-> "http_error", symbols |-> <<>>]
    /\ srcB = [status |-> "http_error", rows |-> <<>>]
    /\ uniResult = UniverseFailure
    /\ uniDone = TRUE
DsQuiet ==
    /\ dsPrice = NoArtifact /\ dsNews = NoNews
    /\ dsLookback = DefaultLookbackDays
    /\ dsResult = NoDatasetResult
    /\ dsDone = TRUE

StoreQuiet ==
    /\ clock = 0 /\ second = 0 /\ dirs = {} /\ files = {}
    /\ pc = [w \in Workers |-> Idle]
    /\ nextRun = 1
    /\ persistRequested = FALSE /\ saveInvoked = FALSE /\ clobbered = FALSE
    /\ lastLookup = NoLookup

ScQuiet == scText = [kind |-> "empty", compound |-> 0] /\ scLabel = "Neutral"
                /\ scScore = [called |-> TRUE, raised |-> FALSE, compound |-> 0]
RlQuiet == rlNews = <<>> /\ rlTable = <<>> /\ rlDone = TRUE
MpQuiet ==
    /\ mpHeadline = <<>>
    /\ mpSectorImpact = [asked |-> TRUE, answer |-> <<>>]
    /\ mpKeywordWeights = [asked |-> TRUE, answer |-> <<>>]
NwQuiet ==
    /\ nwProvider = NoClient
    /\ nwCall = [done |-> TRUE, impl |-> "none", category |-> "general",
                 result |-> NewsNone(<<>>)]
    /\ nwIndex = [done |-> TRUE, newsList |-> NewsNone(<<>>),
                  handling |-> IndexHandling(NewsNone(<<>>))]
PrQuiet ==
    /\ prTickers = NoTickers /\ prUniverse = <<>>
    /\ prDownload = NotDownloaded /\ prResult = NoPanel /\ prDone = TRUE
OtherQuiet == ScQuiet /\ RlQuiet /\ MpQuiet /\ NwQuiet /\ PrQuiet

InitSymbols ==
    /\ symIn \in AllSymbols /\ symOut = <<>> /\ symOp = "none"
    /\ UniQuiet /\ DsQuiet /\ StoreQuiet /\ OtherQuiet
NextSymbols == ApplyNormalizeSymbol \/ ApplyToYahooSymbol
SpecSymbols == InitSymbols /\ [][NextSymbols]_vars

InitUniverse ==
    /\ srcA \in SourceAResponses /\ srcB \in SourceBResponses
    /\ uniResult = UniverseFailure /\ uniDone = FALSE
    /\ SymQuiet /\ DsQuiet /\ StoreQuiet /\ OtherQuiet
NextUniverse == CallGetSp500Data
SpecUniverse == InitUniverse /\ [][NextUniverse]_vars

InitDataset ==
    /\ dsPrice \in PriceInputs /\ dsNews \in NewsInputs
    /\ dsLookback = DefaultLookbackDays
    /\ dsResult = NoDatasetResult /\ dsDone = FALSE
    /\ SymQuiet /\ UniQuiet /\ StoreQuiet /\ OtherQuiet
NextDataset == CallGenerateMlTrainingDataset
SpecDataset == InitDataset /\ [][NextDataset]_vars

\* the directories do not exist before the first save makes them
Init == StoreQuiet /\ SymQuiet /\ UniQuiet /\ DsQuiet /\ OtherQuiet
Next ==
    \/ Tick
    \/ RunCli
    \/ \E w \in Workers :
          \/ BeginIndex(w) \/ FinishIndex(w)
          \/ BeginPredict(w) \/ FinishPredict(w)
          \/ GeneratePriceStage(w) \/ GenerateNewsStage(w)
Spec == Init /\ [][Next]_vars

InitScorer ==
    /\ scText \in Texts /\ scLabel = "none" /\ scScore = NotCalled
    /\ SymQuiet /\ UniQuiet /\ DsQuiet /\ StoreQuiet /\ RlQuiet /\ MpQuiet
    /\ NwQuiet /\ PrQuiet
NextScorer == ApplyGetSentimentScore \/ ApplyGetCompoundScore
SpecScorer == InitScorer /\ [][NextScorer]_vars

InitRolling ==
    /\ rlNews \in RollNewsInputs /\ rlTable = <<>> /\ rlDone = FALSE
    /\ SymQuiet /\ UniQuiet /\ DsQuiet /\ StoreQuiet /\ ScQuiet /\ MpQuiet
    /\ NwQuiet /\ PrQuiet
NextRolling == CallDailySentiment
SpecRolling == InitRolling /\ [][NextRolling]_vars

InitMapper ==
    /\ mpHeadline \in Headlines
    /\ mpSectorImpact = NotAsked /\ mpKeywordWeights = NotAsked
    /\ SymQuiet /\ UniQuiet /\ DsQuiet /\ StoreQuiet /\ ScQuiet /\ RlQuiet
    /\ NwQuiet /\ PrQuiet
NextMapper == CallDetermineSectorImpact \/ CallExtractKeywordImpacts
SpecMapper == InitMapper /\ [][NextMapper]_vars

InitNews ==
    /\ nwProvider \in Providers /\ nwCall = NoCall /\ nwIndex = NoIndexRun
    /\ SymQuiet /\ UniQuiet /\ DsQuiet /\ StoreQuiet /\ ScQuiet /\ RlQuiet /\ MpQuiet
    /\ PrQuiet
NextNews == CallGetMarketNews \/ CallFinnhubGetMarketNews \/ RunIndex
SpecNews == InitNews /\ [][NextNews]_vars

InitPrices ==
    /\ prTickers \in TickerArgs /\ prUniverse \in UniverseLists
    /\ prDownload = NotDownloaded /\ prResult = NoPanel /\ prDone = FALSE
    /\ SymQuiet /\ UniQuiet /\ DsQuiet /\ StoreQuiet /\ ScQuiet /\ RlQuiet /\ MpQuiet
    /\ NwQuiet
NextPrices == CallGetSp500Prices
SpecPrices == InitPrices /\ [][NextPrices]_vars

(***************************************************************************)
(* Properties of generate_ml_training_dataset (SpecDataset).               *)
(***************************************************************************)
ReturnedTable == dsDone /\ dsResult.outcome = "table"

\* the close-price series of the claim: the dates of the price artifact that
\* carry a close and lie inside the lookback window of the call
WindowSeries ==
    {d \in DOMAIN dsPrice.close :
        dsPrice.close[d].def /\ d > Today - dsLookback}

NextInSeries(d, e) ==
    /\ e \in WindowSeries /\ e > d
    /\ \A f \in WindowSeries : ~(d < f /\ f < e)

\* C1: every returned row sits on a date di of the series that has a
\* successor d(i+1) in the series, and its Target_Pct_Change is defined and
\* equals (p(i+1) - pi) / pi; so the last date of the series has no row
C1_TargetIsNextDayReturn ==
    ReturnedTable =>
        \A d \in DOMAIN dsResult.rows :
            /\ d \in WindowSeries
            /\ dsResult.rows[d].Target_Pct_Change.def
            /\ \E e \in DateSet :
                  /\ NextInSeries(d, e)
                  /\ dsResult.rows[d].Target_Pct_Change.n * dsPrice.close[d].n
                        = (dsPrice.close[e].n - dsPrice.close[d].n)
                            * dsResult.rows[d].Target_Pct_Change.d

\* a three-date series with two returned rows, one of them a non-zero move
C1_Witness ==
    /\ ReturnedTable
    /\ Cardinality(WindowSeries) = 3
    /\ Cardinality(DOMAIN dsResult.rows) = 2
    /\ \E d \in DOMAIN dsResult.rows : dsResult.rows[d].Target_Pct_Change.n > 0

NewsOnDate(d) ==
    \E i \in 1..Len(dsNews.articles) :
        dsNews.articles[i].ok /\ dsNews.articles[i].date = d

\* C2 as stated: the output is the inner join on date, so no returned row
\* has an undefined daily_sentiment
C2_Original_InnerJoin ==
    ReturnedTable =>
        \A d \in DOMAIN dsResult.rows :
            /\ dsResult.rows[d].daily_sentiment.def
            /\ NewsOnDate(d)
            /\ dsResult.rows[d].Close_Price_T.def

\* C2 amended: the output is the outer join cut down to the dates whose
\* target is defined: every date of the series that has a successor with a
\* non-zero close of its own is returned whether or not it has news, every
\* returned row has a close price, and its daily_sentiment is defined
\* exactly when some article falls on that date
C2_OuterJoinOnPriceDates ==
    ReturnedTable =>
        /\ \A d \in DOMAIN dsResult.rows :
              /\ dsResult.rows[d].Close_Price_T = dsPrice.close[d]
              /\ dsResult.rows[d].Close_Price_T.def
              /\ dsResult.rows[d].daily_sentiment.def <=> NewsOnDate(d)
        /\ \A d \in WindowSeries :
              (dsPrice.close[d].n # 0 /\ \E e \in DateSet : NextInSeries(d, e))
                  => d \in DOMAIN dsResult.rows

\* a returned row on a date without any article
C2_Witness ==
    /\ ReturnedTable
    /\ \E d \in DOMAIN dsResult.rows :
          ~NewsOnDate(d) /\ ~dsResult.rows[d].daily_sentiment.def

PriceStagePasses ==
    /\ dsPrice.present /\ dsPrice.readable /\ dsPrice.hasClose
    /\ WindowSeries # {}

\* the merge was reached and no date of it has a defined target
ZeroRowJoin ==
    /\ PriceStagePasses /\ dsNews.present /\ dsNews.readable /\ dsNews.hasHeadline
    /\ \A d \in WindowSeries :
          dsPrice.close[d].n = 0 \/ ~\E e \in DateSet : NextInSeries(d, e)

\* C3 as stated: no price artifact, no news artifact, or a join of zero
\* rows each make the call return None
C3_Original_NoneOnEmptyJoin ==
    dsDone =>
        ((~dsPrice.present \/ ~dsNews.present \/ ZeroRowJoin)
            => dsResult.outcome = "None")

\* C3 amended: the call returns None when no price artifact matches; when
\* no news artifact matches it returns None too, except that a price
\* artifact pandas cannot parse makes the read at line 52 raise before the
\* news lookup; a join of zero rows returns a table of zero rows, not None,
\* and nothing is written for it
C3_NoneOnMissingArtifact ==
    dsDone =>
        /\ ~dsPrice.present => dsResult.outcome = "None"
        /\ ~dsNews.present =>
              dsResult.outcome =
                  IF dsPrice.present /\ ~dsPrice.readable THEN "raise" ELSE "None"
        /\ ZeroRowJoin =>
              /\ dsResult.outcome = "table" /\ dsResult.rows = <<>>
              /\ ~dsResult.written

\* a call that reached the merge and came back with a table of zero rows
C3_Witness ==
    dsDone /\ ZeroRowJoin /\ dsResult.outcome = "table" /\ dsResult.rows = <<>>

(***************************************************************************)
(* Properties of get_sp500_data (SpecUniverse).                            *)
(***************************************************************************)
NormalizedA == [i \in 1..Len(srcA.symbols) |-> NormalizeSymbol(srcA.symbols[i])]

\* source B shows a row (of whatever shape) for the ticker
ShownInB(t) ==
    /\ srcB.status = "ok"
    /\ \E i \in 1..Len(srcB.rows) : NormalizeSymbol(srcB.rows[i].ticker) = t

\* C7: when source A succeeds, the returned ticker list is source A's
\* normalized list whatever source B does, and every ticker source B does
\* not show has sector "unknown" and founded year "N/A"
C7_EnrichmentNeverDropsTickers ==
    (uniDone /\ srcA.status = "ok") =>
        /\ uniResult.ok
        /\ uniResult.tickers = NormalizedA
        /\ DOMAIN uniResult.sector = TickerSet(NormalizedA)
        /\ DOMAIN uniResult.founded = TickerSet(NormalizedA)
        /\ \A t \in TickerSet(NormalizedA) :
              ~ShownInB(t) =>
                  uniResult.sector[t] = "unknown" /\ uniResult.founded[t] = "N/A"

\* source B shows one of two tickers, the other is kept with the defaults
C7_Witness ==
    /\ uniDone /\ srcA.status = "ok" /\ srcB.status = "ok"
    /\ Len(uniResult.tickers) = 2
    /\ \E t, u \in TickerSet(uniResult.tickers) :
          /\ uniResult.sector[t] = "unknown" /\ uniResult.founded[t] = "N/A"
          /\ ~ShownInB(t)
          /\ uniResult.sector[u] = "health"

\* C8: a failed request to source A, and a response of source A without any
\* symbol, both give the failure sentinel, and source B is not scraped
C8_NoSymbolsIsSourceUnavailable ==
    (uniDone /\ (srcA.status # "ok" \/ srcA.symbols = <<>>)) =>
        ~uniResult.ok /\ ~uniResult.scrapedB

\* the constituents table is gone, or every row of it is too short for the
\* fixed positions 3 and 7
StructureChanged ==
    \/ srcB.status = "no_table"
    \/ /\ srcB.status = "ok" /\ srcB.rows # <<>>
       /\ \A i \in 1..Len(srcB.rows) : srcB.rows[i].ncols <= WikiMinCols

AllDefaults ==
    /\ uniResult.ok
    /\ \A t \in DOMAIN uniResult.sector :
          uniResult.sector[t] = "unknown" /\ uniResult.founded[t] = "N/A"

\* C9: a structural change of source B does not come back as a successful
\* result in which every ticker has the defaults
C9_StructureChangeSurfaces ==
    (uniDone /\ srcA.status = "ok" /\ srcA.symbols # <<>> /\ StructureChanged)
        => ~AllDefaults

(***************************************************************************)
(* Properties of the symbol normalisation (SpecSymbols).                   *)
(***************************************************************************)
DotToDash(c) == IF c = "." THEN "-" ELSE c

\* C10 as stated: for a symbol with a dot, the output is the input with
\* every "." turned into "-" and every other character as it was
C10_Original_OnlyDotsChange ==
    (symOp # "none" /\ HasDot(symIn)) =>
        /\ Len(symOut) = Len(symIn)
        /\ \A i \in 1..Len(symIn) : symOut[i] = DotToDash(symIn[i])

\* C10 amended: _to_yahoo_symbols turns every "." into "-" and leaves every
\* other character as it was; get_sp500_data does the same after removing
\* the leading and trailing whitespace, and alters nothing else
C10_DotsToDashesAfterStrip ==
    (symOp # "none" /\ HasDot(symIn)) =>
        LET lead == IF symOp = "get_sp500_data" THEN LeadingSpaces(symIn) ELSE 0
            trail == IF symOp = "get_sp500_data" THEN TrailingSpaces(symIn) ELSE 0
        IN  /\ Len(symOut) = Len(symIn) - lead - trail
            /\ \A i \in 1..Len(symOut) : symOut[i] = DotToDash(symIn[i + lead])

\* a symbol with two dots, normalised
C10_Witness ==
    /\ symOp = "get_sp500_data"
    /\ symIn = <<"B", ".", ".">>
    /\ symOut = <<"B", "-", "-">>

(***************************************************************************)
(* Properties of the artifact store and its callers (Spec).                *)
(***************************************************************************)
\* C4: as long as no request has asked for its artifacts to be persisted,
\* save_data_to_csv has not been invoked and no artifact file exists
C4_NoPersistNoSideEffect ==
    ~persistRequested => (~saveInvoked /\ files = {} /\ dirs = {})

\* C5: no call of save_data_to_csv has written to a path that held the
\* artifact of another run
C5_NoSaveOverwrites == ~clobbered

\* the files of the listing whose names the pattern selects
Selected(lookup) ==
    {f \in lookup.listing :
        \/ lookup.pattern = PricePattern /\ f.name.kind = "sp500_prices_web_pull"
        \/ lookup.pattern = NewsPattern /\ f.name.kind = "market_news_sentiment"}

ReturnsNoneIffNothingToFind ==
    (lastLookup.result = NoFile)
        <=> (~lastLookup.dirExists \/ Selected(lastLookup) = {})

\* C6 as stated: the returned file's modification time is strictly greater
\* than that of every other matching file; None for a missing directory or
\* no match
C6_Original_StrictlyMaximal ==
    lastLookup.called =>
        /\ ReturnsNoneIffNothingToFind
        /\ lastLookup.result # NoFile =>
              /\ lastLookup.result \in Selected(lastLookup)
              /\ \A f \in Selected(lastLookup) \ {lastLookup.result} :
                    f.mtime < lastLookup.result.mtime

\* C6 amended: the returned file is a matching file whose modification time
\* is maximal, no matching file is newer (several may be as new); None
\* exactly for a missing directory or no match
C6_LatestIsMaximal ==
    lastLookup.called =>
        /\ ReturnsNoneIffNothingToFind
        /\ lastLookup.result # NoFile =>
              /\ lastLookup.result \in Selected(lastLookup)
              /\ \A f \in Selected(lastLookup) : f.mtime <= lastLookup.result.mtime

\* a lookup that had an older matching file to pass over
C6_Witness ==
    /\ lastLookup.called /\ lastLookup.result # NoFile
    /\ \E f \in Selected(lastLookup) : f.mtime < lastLookup.result.mtime

(***************************************************************************)
(* Properties of the sentiment scorer (SpecScorer).                        *)
(***************************************************************************)
BothScored == scLabel # "none" /\ scScore.called /\ IsString(scText)

C12_EmptyOrNonStringIsNeutral ==
    scText.kind \in {"empty", "None", "number"} =>
        /\ scScore.called => (~scScore.raised /\ scScore.compound = 0)
        /\ scLabel # "none" => scLabel = "Neutral"

(***************************************************************************)
(* Properties of the daily sentiment table (SpecRolling).                  *)
(***************************************************************************)
ObservedDates == {rlNews[i].date : i \in 1..Len(rlNews)}

\* the daily observations among the trailing n, the one of date d included
Trailing(d, n) ==
    {e \in ObservedDates :
        e <= d /\ Cardinality({f \in ObservedDates : e < f /\ f <= d}) < n}

DailyOf(e) == rlTable[CHOOSE j \in 1..Len(rlTable) : rlTable[j].date = e].daily_sentiment

RECURSIVE SumOver(_)
SumOver(S) ==
    IF S = {} THEN Float(0, 1)
    ELSE LET e == CHOOSE x \in S : TRUE
         IN  FloatAdd(SumOver(S \ {e}), DailyOf(e))

IsMeanOver(x, S) ==
    x.def /\ x.n * SumOver(S).d * Cardinality(S) = SumOver(S).n * x.d

\* C13: the table has a row per observed date; sentiment_7d of a row is
\* defined only if at least 3 daily observations lie among the trailing 7
\* and is then their mean; sentiment_3d is defined whenever at least 1 lies
\* among the trailing 3 and is their mean
C13_RollingSentiment ==
    rlDone =>
        /\ {rlTable[i].date : i \in 1..Len(rlTable)} = ObservedDates
        /\ \A i \in 1..Len(rlTable) :
              LET d == rlTable[i].date
              IN  /\ rlTable[i].sentiment_7d.def <=> Cardinality(Trailing(d, 7)) >= 3
                  /\ rlTable[i].sentiment_7d.def
                        => IsMeanOver(rlTable[i].sentiment_7d, Trailing(d, 7))
                  /\ rlTable[i].sentiment_3d.def <=> Cardinality(Trailing(d, 3)) >= 1
                  /\ rlTable[i].sentiment_3d.def
                        => IsMeanOver(rlTable[i].sentiment_3d, Trailing(d, 3))

\* a table of eight observed days: the first two rows have no sentiment_7d,
\* and the eighth row's window has slid past a first day that scored
\* differently from the rest
C13_Witness ==
    /\ rlDone /\ Len(rlTable) >= 8
    /\ ~rlTable[1].sentiment_7d.def /\ ~rlTable[2].sentiment_7d.def
    /\ rlTable[1].sentiment_3d.def
    /\ rlTable[8].sentiment_7d.def
    /\ ~FloatEq(rlTable[1].daily_sentiment, rlTable[2].daily_sentiment)
    /\ FloatEq(rlTable[8].sentiment_7d, rlTable[2].daily_sentiment)

(***************************************************************************)
(* Properties of StockSentimentMapper (SpecMapper).                        *)
(***************************************************************************)
\* the (sector, keyword) entries of the sector table whose keyword occurs in
\* the headline, letter case aside
MatchedSectorKeys ==
    {<<j, k>> \in (1..Len(SectorSentimentMap)) \X (1..3) :
        /\ k <= Len(SectorSentimentMap[j].keywords)
        /\ KeywordIn(SectorSentimentMap[j].keywords[k].chars, mpHeadline)}

MatchedImpactKeywords ==
    {KeywordImpactMatrix[j].keyword : j \in
        {j \in 1..Len(KeywordImpactMatrix) :
            KeywordIn(KeywordImpactMatrix[j].chars, mpHeadline)}}

\* C14: all matches are returned, with no precedence: the sector impact
\* reports the sentiment of every matched sector-table keyword, also when
\* several keywords of one sector match; the keyword weights hold exactly
\* the matched keywords of the impact matrix; a headline with "war" gives
\* entries for defense and tech and a keyword_weights entry for "war"
C14_AllMatchesReturned ==
    /\ mpSectorImpact.asked =>
          /\ \A m \in MatchedSectorKeys :
                LET sector == SectorSentimentMap[m[1]].sector
                    sentiment == SectorSentimentMap[m[1]].keywords[m[2]].sentiment
                IN  /\ sector \in DOMAIN mpSectorImpact.answer
                    /\ mpSectorImpact.answer[sector] = sentiment
          /\ KeywordIn(<<"w", "a", "r">>, mpHeadline) =>
                {"defense", "tech"} \subseteq DOMAIN mpSectorImpact.answer
    /\ mpKeywordWeights.asked =>
          /\ DOMAIN mpKeywordWeights.answer = MatchedImpactKeywords
          /\ KeywordIn(<<"w", "a", "r">>, mpHeadline) =>
                "war" \in DOMAIN mpKeywordWeights.answer

(***************************************************************************)
(* Properties of news retrieval (SpecNews).                                *)
(***************************************************************************)
ResultOf(impl, q, category) ==
    IF impl = "get_data" THEN GetMarketNews(q, category)
    ELSE FinnhubGetMarketNews(q, category)

\* the providers whose fetch succeeds with zero articles
EmptySuccessProviders(impl, category) ==
    {q \in Providers :
        /\ q.configured
        /\ ResultOf(impl, q, category).value = "list"
        /\ ResultOf(impl, q, category).count = 0}

\* C15: the answer got without a configured provider is never the value a
\* fetch that succeeded with zero articles gives, and the caller does not
\* handle the one as it handles the other
C15_UnavailableNotConflated ==
    /\ (nwCall.done /\ ~nwProvider.configured) =>
          \A q \in EmptySuccessProviders(nwCall.impl, nwCall.category) :
              LET other == ResultOf(nwCall.impl, q, nwCall.category)
              IN  <<other.value, other.count>> # <<nwCall.result.value, nwCall.result.count>>
    /\ (nwIndex.done /\ ~nwProvider.configured) =>
          \A q \in EmptySuccessProviders("get_data", "general") :
              IndexHandling(GetMarketNews(q, "general")) # nwIndex.handling

\* C18: every request a get_market_news call makes of the client carries
\* the category the call was given, in both implementations and on the
\* fallback path as on the primary one
C18_CategoryScoped ==
    nwCall.done =>
        \A i \in 1..Len(nwCall.result.queried) :
            nwCall.result.queried[i].category = nwCall.category

(***************************************************************************)
(* Properties of get_sp500_prices (SpecPrices).                            *)
(***************************************************************************)
Downloaded == prDone /\ prDownload.kind = "panel"

\* a column all of whose values are absent
AllAbsent(c) == \A r \in prDownload.rows : ~prDownload.cells[c][r].def

EmptyBefore == prDownload.rows = {} \/ DOMAIN prDownload.cells = {}
EmptyAfter == \A c \in DOMAIN prDownload.cells : AllAbsent(c)

\* C16: the columns dropped are exactly those whose values are all absent;
\* the call returns None when the panel is empty before pruning or empty
\* after it; otherwise it returns the pruned panel as it is, also when a
\* requested ticker has no column left
C16_PrunedPanelOrNone ==
    Downloaded =>
        IF EmptyBefore \/ EmptyAfter
        THEN prResult.kind = "None"
        ELSE /\ prResult.kind = "panel"
             /\ prResult.rows = prDownload.rows
             /\ DOMAIN prResult.cells = {c \in DOMAIN prDownload.cells : ~AllAbsent(c)}
             /\ \A c \in DOMAIN prResult.cells : prResult.cells[c] = prDownload.cells[c]

\* two tickers were asked for; one has no column left, the other keeps a
\* column that has a gap
C16_Witness ==
    /\ Downloaded /\ prResult.kind = "panel"
    /\ \A f \in PriceFields : <<"B", f>> \in DOMAIN prDownload.cells
    /\ \A c \in DOMAIN prResult.cells : c[1] = "A"
    /\ \E c \in DOMAIN prResult.cells :
          \E r \in prResult.rows : ~prResult.cells[c][r].def

(***************************************************************************)
(* Faults and side effects of generate_ml_training_dataset (SpecDataset).  *)
(***************************************************************************)
\* C17: no operation raises to its caller: whatever the artifacts are, one
\* that cannot be parsed with a two-level header or one without a headline
\* column included, generate_ml_training_dataset returns a table or None
C17_NoUncaughtFault ==
    dsDone => dsResult.outcome \in {"table", "None"}

\* C19: a call that returns None has neither made the processed-data
\* directory nor written a file, and the news directory is looked into only
\* after the price stage has passed
C19_NoneLeavesNoTrace ==
    dsDone =>
        /\ dsResult.outcome = "None"
              => (~dsResult.mkdir /\ ~dsResult.saveCalled /\ ~dsResult.written)
        /\ dsResult.newsLookup => PriceStagePasses
        /\ (PriceStagePasses /\ ~dsNews.present)
              => (dsResult.outcome = "None" /\ dsResult.newsLookup)

\* a call that got past the price stage, found no news artifact and returned
\* None
C19_Witness ==
    /\ dsDone /\ PriceStagePasses /\ ~dsNews.present
    /\ dsResult.outcome = "None" /\ dsResult.newsLookup /\ ~dsResult.mkdir

====
